---- MODULE Spec2Model ----
(***************************************************************************)
(* Sprite-sheet builder of bitte_pixels (src/bitte_pixels/src/sprite.rs):   *)
(* SpriteData::new, SpriteSheetBuilder::{push_sprite, add, add_animation,   *)
(* build} and the AnimationHandle they return.                              *)
(*                                                                         *)
(* u32 values are modelled at a reduced width of WordBits bits; the        *)
(* arithmetic keeps the shape of the Rust code: with overflow checks       *)
(* (debug profile) an overflowing +, - or * panics, without them (release   *)
(* profile) it wraps modulo 2^WordBits.  usize is wider than u32 and is    *)
(* never the operand of an overflowing operation here, so lengths are      *)
(* plain naturals.                                                         *)
(*                                                                         *)
(* Further parts: AnimationHandle::get_frame, the sprite renderer's        *)
(* render call (sprite.rs), calculate_active_quad                          *)
(* (src/bitte_pixels/src/upscale.rs), the Renderer of                      *)
(* src/bitte_pixels/src/lib.rs (construction, resize_surface, render)      *)
(* and the event loop of src/src/winit.rs with the GameRunner of           *)
(* src/bitte_core/src/lib.rs, each under a specification of its own        *)
(* over the same variables.                                                *)
(***************************************************************************)
EXTENDS Integers, Sequences, FiniteSets, TLC

\* ------------------------------------------------------------------ bounds
\* Width of the model's u32.
WordBits == 5
\* The builder is driven until its table holds this many entries.
MaxEntries == 4
\* Longest Vec<SpriteData> handed to add_animation.
MaxFrames == 2
\* Number of add_animation calls that are followed.
MaxAnims == 1
\* Largest value of limits.max_texture_dimension_2d that is tried.
MaxTextureDim == 3
\* Largest time value handed to get_frame.
MaxTime == 3
\* Width of the model's u32 in Size { width, height }: wide enough for the
\* 240x240 canvas and the 500x500 surface.
SizeBits == 9
\* Surface and canvas widths and heights 1..MaxSurface and 1..MaxCanvas are
\* tried besides the named ones.
MaxSurface == 5
MaxCanvas == 2
\* The instance buffer's capacity in records, const MAX_INSTANCES (2048 in
\* Renderer::new), scaled down like the integer width.
MAX_INSTANCES == 3
\* Input events followed through the event loop, and updates of the runner.
MaxEvents == 2
MaxSteps == 2

U32Modulus == 2 ^ WordBits

\* ------------------------------------------------------- u32 arithmetic
\* a + b, a - b, a * b on u32 as the release profile computes them.
U32Add(a, b) == (a + b) % U32Modulus
U32Sub(a, b) == (a - b) % U32Modulus
U32Mul(a, b) == (a * b) % U32Modulus
\* Whether the exact result leaves the u32 range (a panic under overflow
\* checks).
AddOverflows(a, b) == a + b >= U32Modulus
SubOverflows(a, b) == a - b < 0
MulOverflows(a, b) == a * b >= U32Modulus

Min(a, b) == IF a <= b THEN a ELSE b

\* i32 at the same reduced width: two's complement over WordBits bits.
I32Min == -(U32Modulus \div 2)
I32Max == (U32Modulus \div 2) - 1
\* a + b on i32 as the release profile computes it, and whether the exact
\* sum leaves the i32 range (a panic under overflow checks).
I32Add(a, b) == ((a + b - I32Min) % U32Modulus) + I32Min
I32AddOverflows(a, b) == a + b < I32Min \/ a + b > I32Max

\* ------------------------------------------------------------ SpriteData
\* struct SpriteData { dimensions, offset, data, pixels }
MkSpriteData(dimensions, offset, data, pixels) ==
    [dimensions |-> dimensions, offset |-> offset, data |-> data, pixels |-> pixels]

NoSpriteData == MkSpriteData(<<0, 0>>, <<0, 0>>, <<>>, 0)

\* Option<SpriteData>, with the panic of an overflow-checked build as a
\* third outcome.
Some(s) == [tag |-> "Some", value |-> s]
None == [tag |-> "None", value |-> NoSpriteData]
Panic == [tag |-> "Panic", value |-> NoSpriteData]

\* The length comparison of SpriteData::new: (pixels * 4) as usize ==
\* data.len(), the product taken in u32.
LengthMatches(pixels, data) == U32Mul(pixels, 4) = Len(data)

\* SpriteData::new(dimensions, offset, data)
SpriteData_new(dimensions, offset, data, checks) ==
    IF dimensions[1] = 0 \/ dimensions[2] = 0 THEN None
    ELSE IF checks /\ MulOverflows(dimensions[1], dimensions[2]) THEN Panic
    ELSE LET pixels == U32Mul(dimensions[1], dimensions[2]) IN
         IF checks /\ MulOverflows(pixels, 4) THEN Panic
         ELSE IF LengthMatches(pixels, data)
              THEN Some(MkSpriteData(dimensions, offset, data, pixels))
              ELSE None

\* ---------------------------------------------------- SpriteSheetBuilder
\* The fields of SpriteSheetBuilder that the operations change, and whether
\* an operation on it panicked.
MkBuilder(table, pixel_count, data, panicked) ==
    [table |-> table, pixel_count |-> pixel_count, data |-> data, panicked |-> panicked]

\* struct SpriteEntry { address, dimensions, offset }
MkSpriteEntry(address, dimensions, offset) ==
    [address |-> address, dimensions |-> dimensions, offset |-> offset]

\* self.pixel_count += sprite.pixels
AdvancePixelCount(pixel_count, pixels) == U32Add(pixel_count, pixels)

\* address: self.pixel_count, read before the counter advances.
EntryAddress(pixel_count) == pixel_count

\* SpriteSheetBuilder::push_sprite
push_sprite(b, sprite, checks) ==
    MkBuilder(
        Append(b.table,
               MkSpriteEntry(EntryAddress(b.pixel_count),
                             sprite.dimensions, sprite.offset)),
        IF checks /\ AddOverflows(b.pixel_count, sprite.pixels)
        THEN b.pixel_count
        ELSE AdvancePixelCount(b.pixel_count, sprite.pixels),
        b.data \o sprite.data,
        checks /\ AddOverflows(b.pixel_count, sprite.pixels))

\* SpriteHandle(self.table.len() - 1)
HandleOfLast(table) == Len(table) - 1

\* SpriteSheetBuilder::add
add(b, sprite, checks) ==
    LET nb == push_sprite(b, sprite, checks) IN
    [builder |-> nb, handle |-> HandleOfLast(nb.table)]

\* The loop of add_animation: push_sprite for each sprite in order; a panic
\* ends it.
RECURSIVE push_all(_, _, _)
push_all(b, sprites, checks) ==
    IF sprites = <<>> \/ b.panicked THEN b
    ELSE push_all(push_sprite(b, Head(sprites), checks), Tail(sprites), checks)

\* MkAnimationHandle with the offset read after the loop instead of before.
MkAnimationHandle_late(offset, end) == [offset |-> end, frame_count |-> 0]

\* AnimationHandle { offset, frame_count: end - offset }
MkAnimationHandle(offset, end) == [offset |-> offset, frame_count |-> end - offset]

\* SpriteSheetBuilder::add_animation
add_animation(b, sprites, checks) ==
    LET offset == Len(b.table)
        nb == push_all(b, sprites, checks)
        end == Len(nb.table)
    IN [builder |-> nb, handle |-> MkAnimationHandle(offset, end)]

\* ------------------------------------------------------- AnimationHandle
\* SpriteHandle(usize), and the panic of a remainder by zero.
SpriteHandle(index) == [tag |-> "SpriteHandle", index |-> index]
RemainderByZero == [tag |-> "Panic", index |-> 0]

\* The frame index without the remainder: always the first frame.
FrameIndex_first(h, time) == h.offset

\* The frame index without the remainder: offset + time.
FrameIndex_unwrapped(h, time) == h.offset + time

\* self.offset + (time % self.frame_count), on usize.  For a handle of
\* add_animation offset + frame_count is a Vec length, so the sum stays in
\* usize.
FrameIndex(h, time) == h.offset + (time % h.frame_count)

\* AnimationHandle::get_frame; time % 0 panics in every build profile.
get_frame(h, time) ==
    IF h.frame_count = 0 THEN RemainderByZero
    ELSE SpriteHandle(FrameIndex(h, time))

\* The builder of create_sprite_sheet_builder before the dummy is added.
EmptyBuilder == MkBuilder(<<>>, 0, <<>>, FALSE)

\* The dummy sprite of create_sprite_sheet_builder.
DummySprite == MkSpriteData(<<1, 1>>, <<0, 0>>, <<0, 0, 0, 0>>, 1)

\* Renderer::create_sprite_sheet_builder
create_sprite_sheet_builder(checks) == add(EmptyBuilder, DummySprite, checks).builder

\* ----------------------------------------------------------------- build
\* let width = self.pixel_count.min(max_width);
build_width(pixel_count, max_width) == Min(pixel_count, max_width)

\* build_height without the extra row: floor(P / W) rows.
build_height_floor(pixel_count, max_width) == pixel_count \div max_width

\* let height = 1 + self.pixel_count / max_width;
build_height(pixel_count, max_width) == U32Add(1, pixel_count \div max_width)

\* let padding = (width * height - self.pixel_count) as usize;
build_padding(width, height, pixel_count) ==
    U32Sub(U32Mul(width, height), pixel_count)

\* Whether one of the u32 operations of build leaves the u32 range.
build_overflows(pixel_count, max_width) ==
    \/ AddOverflows(1, pixel_count \div max_width)
    \/ MulOverflows(build_width(pixel_count, max_width),
                    build_height(pixel_count, max_width))
    \/ SubOverflows(U32Mul(build_width(pixel_count, max_width),
                           build_height(pixel_count, max_width)),
                    pixel_count)

\* std::iter::repeat(0).take(n)
Zeros(n) == [i \in 1..n |-> 0]

\* The texture that build creates and the table it freezes.
NoSheet == [width |-> 0, height |-> 0, data |-> <<>>, table |-> <<>>]

\* SpriteSheetBuilder::build: the padded data and the sheet.
build(b, max_width) ==
    LET width == build_width(b.pixel_count, max_width)
        height == build_height(b.pixel_count, max_width)
        padding == build_padding(width, height, b.pixel_count)
        data == b.data \o Zeros(padding * 4)
    IN [width |-> width, height |-> height, data |-> data, table |-> b.table]

\* create_texture_with_data writes the rows of the texture from a slice of
\* the data and panics when the data is shorter than width*height texels.
\* (The device's validation of the requested extent is not part of this
\* module.)
UploadFits(width, height, bytes) == Len(bytes) >= width * height * 4

\* The texel coordinate the sprite fragment stage fetches for pixel address a
\* in a texture `width` texels wide.
TexCoord(a, width) == <<a % width, a \div width>>

\* The RGBA8 texel at (x, y) of a texture created by
\* create_texture_with_data from tightly packed rows; <<>> when the
\* coordinate or the data does not reach that far.
Texel(s, x, y) ==
    LET first == 4 * (y * s.width + x) IN
    IF x < s.width /\ y < s.height /\ first + 4 <= Len(s.data)
    THEN SubSeq(s.data, first + 1, first + 4)
    ELSE <<>>

\* Pixel (x, y) of a sprite's data, rows top to bottom; <<>> when the data
\* does not reach that far.
SpritePixel(sprite, x, y) ==
    LET first == 4 * (x + y * sprite.dimensions[1]) IN
    IF first + 4 <= Len(sprite.data)
    THEN SubSeq(sprite.data, first + 1, first + 4)
    ELSE <<>>

\* -------------------------------------------------------- sprite renderer
\* struct SpriteInstance { position, sprite }.  `foreign` is not a field of
\* the struct: it records that the caller got the handle from another
\* builder (SpriteHandle itself is a bare index).
MkSpriteInstance(position, sprite, foreign) ==
    [position |-> position, sprite |-> sprite, foreign |-> foreign]

\* struct InstanceData { position, dimensions, sheet_position }
MkInstanceData(position, dimensions, sheet_position) ==
    [position |-> position, dimensions |-> dimensions,
     sheet_position |-> sheet_position]

\* &sprite_sheet.table[sprite.sprite.0] panics when the index is not below
\* the table's length.
IndexInBounds(tbl, sprite) == sprite.sprite < Len(tbl)

\* Whether one of the two i32 additions of the position leaves i32.
PositionOverflows(entry, sprite) ==
    \/ I32AddOverflows(sprite.position[1], entry.offset[1])
    \/ I32AddOverflows(sprite.position[2], entry.offset[2])

\* The closure of render's map: the record of one Sprite Instance.
InstanceOf(entry, sprite) ==
    MkInstanceData(<<I32Add(sprite.position[1], entry.offset[1]),
                     I32Add(sprite.position[2], entry.offset[2])>>,
                   entry.dimensions, entry.address)

\* The first element of the slice at which the closure panics, 0 when it
\* panics at none.
FirstPanic(tbl, sprites, checks) ==
    LET bad == { i \in 1..Len(sprites) :
                    \/ ~IndexInBounds(tbl, sprites[i])
                    \/ checks /\ PositionOverflows(tbl[sprites[i].sprite + 1],
                                                    sprites[i]) }
    IN IF bad = {} THEN 0 ELSE CHOOSE i \in bad : \A j \in bad : i <= j

\* write_buffer that copies what fits and reports nothing.
write_buffer_truncating(capacity, records) ==
    [ok |-> TRUE, written |-> Min(capacity, Len(records))]

\* queue.write_buffer(&self.instance_buffer, 0, records) on a buffer of
\* `capacity` records: the device validates the copy against the buffer's
\* size, and a copy that overruns it is a validation error that writes
\* nothing; no error handler is installed, so the error is a panic.
write_buffer(capacity, records) ==
    IF Len(records) > capacity
    THEN [ok |-> FALSE, written |-> 0]
    ELSE [ok |-> TRUE, written |-> Len(records)]

\* What a render call issued: the records it built, how many it wrote to
\* the instance buffer and the instance range of its draw.
MkDraw(outcome, instances, written, instance_count) ==
    [outcome |-> outcome, instances |-> instances, written |-> written,
     instance_count |-> instance_count]

\* sprite::Renderer::render on a sheet's table and a slice of instances.
render(tbl, sprites, checks) ==
    LET f == FirstPanic(tbl, sprites, checks) IN
    IF f # 0
    THEN MkDraw(IF IndexInBounds(tbl, sprites[f])
                THEN "overflow_panic" ELSE "index_panic", <<>>, 0, 0)
    ELSE LET instances == [i \in 1..Len(sprites) |->
                              InstanceOf(tbl[sprites[i].sprite + 1], sprites[i])]
             w == write_buffer(MAX_INSTANCES, instances)
         IN IF w.ok
            THEN MkDraw("drawn", instances, w.written, Len(sprites))
            ELSE MkDraw("write_panic", instances, w.written, 0)

\* --------------------------------------------------- calculate_active_quad
\* struct Size { width: u32, height: u32 }
MkSize(width, height) == [width |-> width, height |-> height]

\* u32 arithmetic on Size fields, at SizeBits bits: wrapping results and
\* whether the exact result leaves the range.
SizeModulus == 2 ^ SizeBits
SizeAdd(a, b) == (a + b) % SizeModulus
SizeSub(a, b) == (a - b) % SizeModulus
SizeMul(a, b) == (a * b) % SizeModulus

\* p as f32 / surface as f32 * 2. - 1., as the exact fraction
\* (2p - surface) / surface that the f32 result approximates.
Ndc(p, surface) == [num |-> 2 * p - surface, den |-> surface]

\* The pixel coordinate an Ndc value stands for.
PixelOf(c) == (c.num + c.den) \div 2

\* struct Vertex { x: f32, y: f32 }
MkVertex(x, y) == [x |-> x, y |-> y]

\* int_scale from the widths alone.
int_scale_width_only(surface, internal) == surface.width \div internal.width

\* int_scale that never goes below 1.
int_scale_at_least_one(surface, internal) ==
    LET m == Min(surface.width \div internal.width,
                 surface.height \div internal.height)
    IN IF m = 0 THEN 1 ELSE m

\* int_scale from the larger of the two quotients.
int_scale_max(surface, internal) ==
    LET qw == surface.width \div internal.width
        qh == surface.height \div internal.height
    IN IF qw >= qh THEN qw ELSE qh

\* let int_scale = min(surface.width / internal.width,
\*                     surface.height / internal.height);
int_scale(surface, internal) ==
    Min(surface.width \div internal.width, surface.height \div internal.height)

\* let upscaled = Size { width: internal.width * int_scale, height: ... };
upscaled_size(internal, scale) ==
    MkSize(SizeMul(internal.width, scale), SizeMul(internal.height, scale))

\* x_offset without the halving: the whole margin on the left.
x_offset_flush(surface, upscaled) == SizeSub(surface.width, upscaled.width)

\* let x_offset = (surface.width - upscaled.width) / 2;
x_offset(surface, upscaled) == SizeSub(surface.width, upscaled.width) \div 2

\* let x_padding = upscaled.width + x_offset;
x_padding(upscaled, offset) == SizeAdd(upscaled.width, offset)

\* y_offset with the remainder rounded up.
y_offset_ceiling(surface, upscaled) ==
    (SizeSub(surface.height, upscaled.height) + 1) \div 2

\* let y_offset = (surface.height - upscaled.height) / 2;
y_offset(surface, upscaled) == SizeSub(surface.height, upscaled.height) \div 2

\* let y_padding = upscaled.height + y_offset;
y_padding(upscaled, offset) == SizeAdd(upscaled.height, offset)

\* The four vertices without the vertical flip.
quad_vertices_unflipped(x1, x2, y1, y2) ==
    << MkVertex(x1, y2), MkVertex(x2, y2), MkVertex(x1, y1), MkVertex(x2, y1) >>

\* The array calculate_active_quad returns.
quad_vertices(x1, x2, y1, y2) ==
    << MkVertex(x1, y1), MkVertex(x2, y1), MkVertex(x1, y2), MkVertex(x2, y2) >>

\* Whether one of the u32 operations of calculate_active_quad leaves the
\* u32 range.
quad_overflows(surface, internal) ==
    LET scale == int_scale(surface, internal)
        upscaled == upscaled_size(internal, scale)
    IN \/ internal.width * scale >= SizeModulus
       \/ internal.height * scale >= SizeModulus
       \/ surface.width - upscaled.width < 0
       \/ surface.height - upscaled.height < 0
       \/ upscaled.width + x_offset(surface, upscaled) >= SizeModulus
       \/ upscaled.height + y_offset(surface, upscaled) >= SizeModulus

NoVertices == << >>

\* calculate_active_quad(surface, internal); both sizes are non-zero where
\* it is called.
calculate_active_quad(surface, internal, checks) ==
    IF checks /\ quad_overflows(surface, internal)
    THEN [tag |-> "Panic", vertices |-> NoVertices]
    ELSE LET scale == int_scale(surface, internal)
             upscaled == upscaled_size(internal, scale)
             xo == x_offset(surface, upscaled)
             xp == x_padding(upscaled, xo)
             x1 == Ndc(xo, surface.width)
             x2 == Ndc(xp, surface.width)
             yo == y_offset(surface, upscaled)
             yp == y_padding(upscaled, yo)
             y1 == Ndc(yp, surface.height)
             y2 == Ndc(yo, surface.height)
         IN [tag |-> "Quad", vertices |-> quad_vertices(x1, x2, y1, y2)]

\* const QUAD_VERTICES: the texture coordinate paired with each vertex.
QUAD_VERTICES == << MkVertex(0, 0), MkVertex(1, 0), MkVertex(0, 1), MkVertex(1, 1) >>

\* ------------------------------------------------------------------ inputs
\* ------------------------------------------------------ Renderer (lib.rs)
\* The render pipelines the sub-renderers create in Renderer::new.
Pipelines == {"sprite", "rect", "pixels", "linestrips", "circle", "upscale"}

\* Canvas::new(device, "final image", size, ..): the canvas texture, created
\* with `size`, and the size kept beside it.
Canvas_new(size, texture) == [size |-> size, texture |-> texture]

\* The last Renderer::render call: the outcomes of its texture acquisitions,
\* the commands it recorded and issued, in order, and what it returned
\* ("Ok", "Err(SurfaceTexture)" or "Panic").
MkFrameLog(called, acquired, log, result) ==
    [called |-> called, acquired |-> acquired, log |-> log, result |-> result]
NoFrameLog == MkFrameLog(FALSE, <<TRUE, TRUE>>, <<>>, "None")

NoRenderer ==
    [constructed |-> FALSE, op |-> "none", game_resolution |-> MkSize(1, 1),
     surface_config |-> MkSize(1, 1), canvas |-> Canvas_new(MkSize(1, 1), 0),
     pipelines |-> {}, active_quad_buffer |-> NoVertices, last |-> NoFrameLog]

\* Renderer::new(window, window_size, game_resolution): the surface is
\* configured with window_size, the canvas is created with game_resolution,
\* and the active-quad buffer holds what upscale::Renderer::new computed.
Renderer_new(window_size, game_resolution, vertices) ==
    [constructed |-> TRUE, op |-> "new", game_resolution |-> game_resolution,
     surface_config |-> window_size, canvas |-> Canvas_new(game_resolution, 1),
     pipelines |-> Pipelines, active_quad_buffer |-> vertices,
     last |-> NoFrameLog]

\* resize_surface that also recreates the canvas at the new size.
resize_surface_recreating(r, size, vertices) ==
    [r EXCEPT !.op = "resize_surface", !.surface_config = size,
              !.canvas = Canvas_new(size, r.canvas.texture + 1),
              !.active_quad_buffer = vertices]

\* Renderer::resize_surface(size): the two fields of the surface
\* configuration, surface.configure, and renew_active_quad writing
\* `vertices` to the active-quad buffer.
resize_surface(r, size, vertices) ==
    [r EXCEPT !.op = "resize_surface", !.surface_config = size,
              !.active_quad_buffer = vertices]

\* get_surface_texture without the second attempt.
get_surface_texture_once(acquired) ==
    [log |-> <<"get_current_texture">>, ok |-> acquired[1]]

\* Renderer::get_surface_texture; acquired[i] tells whether the i-th
\* surface.get_current_texture() of the call returns Ok.
get_surface_texture(acquired) ==
    IF acquired[1]
    THEN [log |-> <<"get_current_texture">>, ok |-> TRUE]
    ELSE [log |-> <<"get_current_texture", "configure", "get_current_texture">>,
          ok |-> acquired[2]]

\* The canvas pass of render up to the sprite renderer.
canvas_pass_begin ==
    << "create_command_encoder", "begin_render_pass(canvas, Clear)",
       "set_bind_group(0, dimensions)", "sprite_renderer.render" >>

\* The rest of the canvas pass, left open.
canvas_pass_unclosed ==
    << "rect_renderer.render", "primitives_renderer.render(pixels)",
       "primitives_renderer.render(linestrips)", "circle_renderer.render" >>

\* The rest of the canvas pass: rectangles, pixels and line strips,
\* circles, and the drop of the pass.
canvas_pass_rest ==
    << "rect_renderer.render", "primitives_renderer.render(pixels)",
       "primitives_renderer.render(linestrips)", "circle_renderer.render",
       "drop(render_pass)" >>

\* upscale_renderer.render(&mut encoder, surface_view): the pass onto the
\* surface view, which draws the active quad and ends with the call.
composite_pass ==
    << "create_view", "begin_render_pass(surface, Clear)", "draw(active_quad)",
       "end(upscale pass)" >>

\* The end of the frame with the two calls swapped.
finish_present_first == << "present", "queue.submit" >>

\* self.ctx.queue.submit(Some(encoder.finish())); surface_texture.present();
finish == << "queue.submit", "present" >>

\* Renderer::render(sprite_sheet, scene); `sprites_drawn` is whether the
\* sprite renderer returned (it panics otherwise), `acquired` the outcomes
\* of the surface's texture acquisitions.
render_frame(sprites_drawn, acquired) ==
    IF ~sprites_drawn
    THEN MkFrameLog(TRUE, acquired, canvas_pass_begin, "Panic")
    ELSE LET g == get_surface_texture(acquired)
             before == canvas_pass_begin \o canvas_pass_rest \o g.log
         IN IF g.ok
            THEN MkFrameLog(TRUE, acquired, before \o composite_pass \o finish,
                            "Ok")
            ELSE MkFrameLog(TRUE, acquired, before, "Err(SurfaceTexture)")

\* ------------------------------------------- GameRunner and Winit (winit.rs)
\* enum WinitInput { Focus, Keyboard, CursorMoved, MouseInput }
Focus(x) == [kind |-> "Focus", value |-> <<x>>]
Keyboard(event) == [kind |-> "Keyboard", value |-> <<event>>]
CursorMovedInput(position) == [kind |-> "CursorMoved", value |-> position]
MouseInputInput(state, button) == [kind |-> "MouseInput", value |-> <<state, button>>]

\* struct GameRunner: what the game state was stepped with (one batch of
\* events per step), the calls of the last update in order, and the size
\* last handed to the renderer.
NoRunner == [steps |-> <<>>, calls |-> <<>>, size |-> <<0, 0>>]

\* Vec::drain(..) that leaves the elements in the vector.
drain_copy(events) == [yielded |-> events, rest |-> events]

\* self.events.drain(..): the iterator yields every element in order, and
\* the vector is empty once the iterator is dropped, consumed or not.
drain(events) == [yielded |-> events, rest |-> <<>>]

\* GameRunner::update(events): state.step(&assets, events), then
\* state.draw(&assets), then renderer.render(scene).expect(..).
update(runner, events) ==
    [runner EXCEPT !.steps = Append(@, events),
                   !.calls = <<"step", "draw", "render">>]

\* GameRunner::resize(dimensions): renderer.resize(dimensions).expect(..).
resize(runner, dimensions) == [runner EXCEPT !.size = dimensions]

\* The state of Winit::start_event_loop's handler: the pending events, the
\* runner it moved in, whether the loop runs ("running", "exited",
\* "panicked") and on which event it panicked, whether a redraw is
\* requested, and every input event that arrived, in order.
Winit_init ==
    [events |-> <<>>, runner |-> NoRunner, status |-> "running",
     cause |-> "none", redraw_requested |-> FALSE, arrived |-> <<>>]

\* Pixel bytes of a caller: len non-zero bytes that differ from byte to byte.
Bytes(len, seed) == [i \in 1..len |-> 1 + ((seed + i) % 255)]

MkArgs(dimensions, offset, bytes) ==
    [dimensions |-> dimensions, offset |-> offset, data |-> bytes]

\* The arguments callers hand to SpriteData::new before registering the
\* result: two well-formed sprites, and three whose products leave u32
\* (width*height*4 = 2^w with no data, width*height = 2^w with no data,
\* width*height = 2^w - 1 with 2^w - 4 bytes).
SpriteArgs ==
    { MkArgs(<<1, 1>>, <<1, -1>>, Bytes(4, 10)),
      MkArgs(<<2, 2>>, <<-2, 3>>, Bytes(16, 40)),
      MkArgs(<<U32Modulus \div 4, 1>>, <<0, 1>>, <<>>),
      MkArgs(<<U32Modulus \div 2, 2>>, <<2, 0>>, <<>>),
      MkArgs(<<U32Modulus - 1, 1>>, <<3, 3>>, Bytes(U32Modulus - 4, 60)) }

\* Sequences of at most MaxFrames arguments, for add_animation.
ArgSeqs == UNION { [1..n -> SpriteArgs] : n \in 0..MaxFrames }

\* The arguments whose buffer holds exactly width*height*4 bytes, and the
\* sequences of them: the sprites registered where get_frame and render are
\* followed.
WellFormedArgs ==
    { a \in SpriteArgs : Len(a.data) = 4 * a.dimensions[1] * a.dimensions[2] }
WellFormedSeqs == UNION { [1..n -> WellFormedArgs] : n \in 0..MaxFrames }

\* Positions of Sprite Instances: the origin, and the corner of the i32
\* range.
PositionChoices == { <<0, 0>>, <<I32Max, I32Min>> }

\* Handles that add returned on another builder: its first registration
\* and its MaxEntries-th (the n-th registration gets index n).
ForeignHandles == { HandleOfLast([i \in 1..(n + 1) |-> i]) : n \in {1, MaxEntries} }

\* The Sprite Instances a caller can make for a sheet with table tbl: with a
\* handle add returned on the sheet's own builder (the dummy's handle is
\* dropped by create_sprite_sheet_builder), or with a foreign one.
InstanceChoices(tbl) ==
    { MkSpriteInstance(p, h, FALSE) :
         p \in PositionChoices, h \in 1..(Len(tbl) - 1) }
    \cup { MkSpriteInstance(p, h, TRUE) :
              p \in PositionChoices, h \in ForeignHandles }

\* A slice of n instances whose k-th element is c; the others sit at the
\* origin and go round the sheet's own handles (where the caller holds no
\* handle of the sheet, they are c as well).
Slice(tbl, n, k, c) ==
    [i \in 1..n |->
        IF i = k \/ Len(tbl) < 2 THEN c
        ELSE MkSpriteInstance(<<0, 0>>, 1 + (i % (Len(tbl) - 1)), FALSE)]

\* The slices handed to render: the empty one, and every length up to one
\* past the instance buffer's capacity with each choice first or last.
Slices(tbl) ==
    { <<>> } \cup UNION { { Slice(tbl, n, k, c) :
                                k \in {1, n}, c \in InstanceChoices(tbl) } :
                             n \in 1..(MAX_INSTANCES + 1) }

\* Widths and heights of canvases and of surfaces.  The canvas texture and
\* the surface configuration are validated by the device before
\* calculate_active_quad runs, so no dimension is 0.
CanvasDims == (1..MaxCanvas) \cup {240, SizeModulus - 1}
SurfaceDims == (1..MaxSurface) \cup {100, 300, 500, SizeModulus - 1}
CanvasSizes == { MkSize(w, h) : w \in CanvasDims, h \in CanvasDims }
SurfaceSizes == { MkSize(w, h) : w \in SurfaceDims, h \in SurfaceDims }

\* Window sizes (at construction and of resize events) and game
\* resolutions where the whole Renderer is followed.
WindowSizes == { MkSize(w, h) : w \in {1, MaxSurface, 500}, h \in {1, MaxSurface, 500} }
GameResolutions == { MkSize(w, h) : w \in {MaxCanvas, 240}, h \in {MaxCanvas, 240} }

\* Payloads of the window's input events, and sizes of its resize events.
FocusValues == BOOLEAN
KeyEvents == {"KeyA"}
CursorPositions == { <<1, 2>> }
MouseButtons == { <<"Pressed", "Left">> }
ResizeDimensions == { <<500, 300>> }

\* Outcomes of the (at most two) texture acquisitions of one frame.
AcquireOutcomes == { <<TRUE, TRUE>>, <<FALSE, TRUE>>, <<FALSE, FALSE>> }

\* The sprites of a scene: none, or one instance.
SceneSprites(tbl) ==
    { <<>> } \cup { Slice(tbl, 1, 1, c) : c \in InstanceChoices(tbl) }

\* Dimensions and buffer lengths tried on SpriteData::new alone.
NewDims == {0, 1, 2, 3, U32Modulus \div 4, U32Modulus \div 2, U32Modulus - 1}
NewLens == {0, 3, 4, 8, 12, 16, 24, U32Modulus - 4, U32Modulus, 4 * (U32Modulus - 1)}

\* -------------------------------------------------------------------- state
VARIABLES
    overflow_checks,          \* build profile: TRUE when u32 overflow panics
    max_texture_dimension_2d, \* context.limits.max_texture_dimension_2d
    table, pixel_count, data, \* the SpriteSheetBuilder
    phase,                    \* "building", "built" or "panicked"
    sheet,                    \* the SpriteSheet of build, NoSheet before
    ret,                      \* what the last call returned
    registered,               \* the SpriteData values registered, in order
    anims,                    \* every add_animation call: its argument and its handle
    lastNew,                  \* the last SpriteData::new call alone: arguments and result
    frame,                    \* the last get_frame call: handle, time and result
    drawn,                    \* the last sprite render call: input and what it issued
    quad,                     \* the last calculate_active_quad call: sizes and result
    renderer,                 \* the Renderer of lib.rs and its last render call
    winit                     \* the event loop of winit.rs with its GameRunner

vars == <<overflow_checks, max_texture_dimension_2d, table, pixel_count, data,
          phase, sheet, ret, registered, anims, lastNew, frame, drawn, quad,
          renderer, winit>>

Builder == MkBuilder(table, pixel_count, data, phase = "panicked")

NoRet == [op |-> "none", handle |-> 0, offset |-> 0, frame_count |-> 0]
NoNew == [called |-> FALSE, dimensions |-> <<0, 0>>, len |-> 0, result |-> None]
NoFrame == [called |-> FALSE, anim |-> 0, time |-> 0, result |-> SpriteHandle(0)]
NoDraw == [called |-> FALSE, sprites |-> <<>>, issued |-> MkDraw("none", <<>>, 0, 0)]
NoQuad == [called |-> FALSE, surface |-> MkSize(1, 1), canvas |-> MkSize(1, 1),
           result |-> [tag |-> "None", vertices |-> NoVertices]]

\* The state after create_sprite_sheet_builder.
Init ==
    /\ overflow_checks \in BOOLEAN
    /\ max_texture_dimension_2d \in 2..MaxTextureDim
    /\ LET b == create_sprite_sheet_builder(overflow_checks) IN
       /\ table = b.table
       /\ pixel_count = b.pixel_count
       /\ data = b.data
    /\ phase = "building"
    /\ sheet = NoSheet
    /\ ret = NoRet
    /\ registered = <<DummySprite>>
    /\ anims = <<>>
    /\ lastNew = NoNew
    /\ frame = NoFrame
    /\ drawn = NoDraw
    /\ quad = NoQuad
    /\ renderer = NoRenderer
    /\ winit = Winit_init

SetBuilder(nb) ==
    /\ table' = nb.table
    /\ pixel_count' = nb.pixel_count
    /\ data' = nb.data
    /\ phase' = IF nb.panicked THEN "panicked" ELSE "building"

\* A lone SpriteData::new(dimensions, offset, data) call.
New(dimensions, offset, bytes) ==
    /\ lastNew' = [called |-> TRUE, dimensions |-> dimensions, len |-> Len(bytes),
                   result |-> SpriteData_new(dimensions, offset, bytes, overflow_checks)]
    /\ UNCHANGED <<renderer, winit, overflow_checks, max_texture_dimension_2d, table, pixel_count,
                   data, phase, sheet, ret, registered, anims, frame, drawn, quad>>

\* builder.add(SpriteData::new(a.dimensions, a.offset, a.data).unwrap())
Add(a) ==
    /\ phase = "building"
    /\ Len(table) < MaxEntries
    /\ LET r == SpriteData_new(a.dimensions, a.offset, a.data, overflow_checks) IN
       /\ r.tag # "None"
       /\ IF r.tag = "Panic"
          THEN /\ phase' = "panicked"
               /\ UNCHANGED <<table, pixel_count, data, ret, registered>>
          ELSE LET res == add(Builder, r.value, overflow_checks) IN
               /\ SetBuilder(res.builder)
               /\ registered' = Append(registered, r.value)
               /\ ret' = IF res.builder.panicked THEN NoRet
                         ELSE [NoRet EXCEPT !.op = "add", !.handle = res.handle]
    /\ UNCHANGED <<renderer, winit, overflow_checks, max_texture_dimension_2d, sheet, anims, lastNew,
                   frame, drawn, quad>>

\* The SpriteData values of a sequence of arguments, each through
\* SpriteData::new.
NewAll(as, checks) ==
    [i \in 1..Len(as) |->
        SpriteData_new(as[i].dimensions, as[i].offset, as[i].data, checks)]

\* builder.add_animation(vec![SpriteData::new(..).unwrap(), ...])
AddAnimation(as) ==
    /\ phase = "building"
    /\ Len(table) + Len(as) <= MaxEntries
    /\ Len(anims) < MaxAnims
    /\ LET rs == NewAll(as, overflow_checks) IN
       /\ \A i \in 1..Len(rs) : rs[i].tag # "None"
       /\ IF \E i \in 1..Len(rs) : rs[i].tag = "Panic"
          THEN /\ phase' = "panicked"
               /\ UNCHANGED <<table, pixel_count, data, ret, registered, anims>>
          ELSE LET sprites == [i \in 1..Len(rs) |-> rs[i].value]
                   res == add_animation(Builder, sprites, overflow_checks)
               IN /\ SetBuilder(res.builder)
                  /\ registered' =
                        registered \o SubSeq(sprites, 1,
                                             Len(res.builder.table) - Len(table))
                  /\ IF res.builder.panicked
                     THEN ret' = NoRet /\ UNCHANGED anims
                     ELSE /\ ret' = [NoRet EXCEPT !.op = "add_animation",
                                                  !.offset = res.handle.offset,
                                                  !.frame_count = res.handle.frame_count]
                          /\ anims' = Append(anims,
                                [handle |-> res.handle, frames |-> sprites,
                                 before |-> Len(registered)])
    /\ UNCHANGED <<renderer, winit, overflow_checks, max_texture_dimension_2d, sheet, lastNew,
                   frame, drawn, quad>>

\* builder.build()
Build ==
    /\ phase = "building"
    /\ IF overflow_checks /\ build_overflows(pixel_count, max_texture_dimension_2d)
       THEN /\ phase' = "panicked"
            /\ UNCHANGED <<data, sheet, ret>>
       ELSE LET s == build(Builder, max_texture_dimension_2d) IN
            /\ data' = s.data
            /\ IF UploadFits(s.width, s.height, s.data)
               THEN /\ phase' = "built"
                    /\ sheet' = s
                    /\ ret' = [NoRet EXCEPT !.op = "build"]
               ELSE /\ phase' = "panicked"
                    /\ UNCHANGED <<sheet, ret>>
    /\ UNCHANGED <<renderer, winit, overflow_checks, max_texture_dimension_2d, table, pixel_count,
                   registered, anims, lastNew, frame, drawn, quad>>

Next ==
    \/ \E a \in SpriteArgs : Add(a)
    \/ \E as \in ArgSeqs : AddAnimation(as)
    \/ Build

Spec == Init /\ [][Next]_vars

\* anims[k].handle.get_frame(time) on a handle that add_animation returned;
\* the panic of the remainder ends the program.
GetFrame(k, time) ==
    /\ phase # "panicked"
    /\ k \in 1..Len(anims)
    /\ LET r == get_frame(anims[k].handle, time) IN
       /\ frame' = [called |-> TRUE, anim |-> k, time |-> time, result |-> r]
       /\ phase' = IF r.tag = "Panic" THEN "panicked" ELSE phase
    /\ UNCHANGED <<renderer, winit, overflow_checks, max_texture_dimension_2d, table, pixel_count,
                   data, sheet, ret, registered, anims, lastNew, drawn, quad>>

\* The builder's operations with get_frame calls on the handles they
\* returned, before and after build.
NextFrame ==
    \/ \E a \in WellFormedArgs : Add(a)
    \/ \E as \in WellFormedSeqs : AddAnimation(as)
    \/ Build
    \/ \E k \in 1..MaxAnims, time \in 0..MaxTime : GetFrame(k, time)

SpecFrame == Init /\ [][NextFrame]_vars

\* sprite_renderer.render(&mut render_pass, &sheet, sprites) on the built
\* sheet; a panic ends the program.
Render(sprites) ==
    /\ phase = "built"
    /\ LET d == render(sheet.table, sprites, overflow_checks) IN
       /\ drawn' = [called |-> TRUE, sprites |-> sprites, issued |-> d]
       /\ phase' = IF d.outcome = "drawn" THEN phase ELSE "panicked"
    /\ UNCHANGED <<renderer, winit, overflow_checks, max_texture_dimension_2d, table, pixel_count,
                   data, sheet, ret, registered, anims, lastNew, frame, quad>>

\* Registration of well-formed sprites, build, and render calls on the
\* built sheet.
NextRender ==
    \/ \E a \in WellFormedArgs : Add(a)
    \/ Build
    \/ \E sprites \in Slices(sheet.table) : Render(sprites)

SpecRender == Init /\ [][NextRender]_vars

\* upscale::Renderer::new: the active-quad buffer is initialised with
\* calculate_active_quad(&ctx.canvas.size, &ctx.canvas.size).
NewUpscale(canvas) ==
    /\ ~quad.called
    /\ phase # "panicked"
    /\ LET r == calculate_active_quad(canvas, canvas, overflow_checks) IN
       /\ quad' = [called |-> TRUE, surface |-> canvas, canvas |-> canvas,
                   result |-> r]
       /\ phase' = IF r.tag = "Panic" THEN "panicked" ELSE phase
    /\ UNCHANGED <<renderer, winit, overflow_checks, max_texture_dimension_2d, table, pixel_count,
                   data, sheet, ret, registered, anims, lastNew, frame, drawn>>

\* upscale::Renderer::renew_active_quad(queue, surface_size): the buffer is
\* rewritten with calculate_active_quad(&surface_size, &ctx.canvas.size).
RenewActiveQuad(surface_size) ==
    /\ quad.called
    /\ phase # "panicked"
    /\ LET r == calculate_active_quad(surface_size, quad.canvas, overflow_checks) IN
       /\ quad' = [quad EXCEPT !.surface = surface_size, !.result = r]
       /\ phase' = IF r.tag = "Panic" THEN "panicked" ELSE phase
    /\ UNCHANGED <<renderer, winit, overflow_checks, max_texture_dimension_2d, table, pixel_count,
                   data, sheet, ret, registered, anims, lastNew, frame, drawn>>

\* Construction of the upscale renderer for some canvas, then surface
\* sizes one after the other.
NextQuad ==
    \/ \E canvas \in CanvasSizes : NewUpscale(canvas)
    \/ \E surface_size \in SurfaceSizes : RenewActiveQuad(surface_size)

SpecQuad == Init /\ [][NextQuad]_vars

\* Renderer::new(&window, window_size, game_resolution), with the
\* upscale::Renderer::new inside it.
NewRenderer(window_size, game_resolution) ==
    /\ ~renderer.constructed
    /\ ~quad.called
    /\ phase # "panicked"
    /\ LET q == calculate_active_quad(game_resolution, game_resolution,
                                      overflow_checks) IN
       /\ renderer' = Renderer_new(window_size, game_resolution, q.vertices)
       /\ quad' = [called |-> TRUE, surface |-> game_resolution,
                   canvas |-> game_resolution, result |-> q]
       /\ phase' = IF q.tag = "Panic" THEN "panicked" ELSE phase
    /\ UNCHANGED <<overflow_checks, max_texture_dimension_2d, table, pixel_count,
                   data, sheet, ret, registered, anims, lastNew, frame, drawn, winit>>

\* Renderer::resize_surface(size), with renew_active_quad inside it.
ResizeSurface(size) ==
    /\ renderer.constructed
    /\ phase # "panicked"
    /\ LET q == calculate_active_quad(size, renderer.canvas.size,
                                      overflow_checks) IN
       /\ renderer' = resize_surface(renderer, size, q.vertices)
       /\ quad' = [quad EXCEPT !.surface = size, !.result = q]
       /\ phase' = IF q.tag = "Panic" THEN "panicked" ELSE phase
    /\ UNCHANGED <<overflow_checks, max_texture_dimension_2d, table, pixel_count,
                   data, sheet, ret, registered, anims, lastNew, frame, drawn, winit>>

\* Renderer::render(&sprite_sheet, &scene) on the built sheet, with the
\* sprite renderer's render inside it; a panic ends the program, an Err is
\* returned to the caller.
RenderFrame(sprites, acquired) ==
    /\ renderer.constructed
    /\ phase = "built"
    /\ LET d == render(sheet.table, sprites, overflow_checks)
           f == render_frame(d.outcome = "drawn", acquired)
       IN /\ drawn' = [called |-> TRUE, sprites |-> sprites, issued |-> d]
          /\ renderer' = [renderer EXCEPT !.op = "render", !.last = f]
          /\ phase' = IF f.result = "Panic" THEN "panicked" ELSE phase
    /\ UNCHANGED <<overflow_checks, max_texture_dimension_2d, table, pixel_count,
                   data, sheet, ret, registered, anims, lastNew, frame, quad, winit>>

\* ------------------------------------------------ the event handler
Others == <<overflow_checks, max_texture_dimension_2d, table, pixel_count, data,
            phase, sheet, ret, registered, anims, lastNew, frame, drawn, quad,
            renderer>>

\* self.events.push(input)
PushInput(input) ==
    /\ winit.status = "running"
    /\ Len(winit.arrived) < MaxEvents
    /\ winit' = [winit EXCEPT !.events = Append(@, input),
                              !.arrived = Append(@, input)]
    /\ UNCHANGED Others

\* WindowEvent::Focused(x)
Focused(x) == PushInput(Focus(x))

\* WindowEvent::KeyboardInput { event, .. }
KeyboardInput(event) == PushInput(Keyboard(event))

\* WindowEvent::CursorMoved { position, .. }
CursorMoved(position) == PushInput(CursorMovedInput(position))

\* WindowEvent::MouseInput { state, button, .. }
MouseInput(sb) == PushInput(MouseInputInput(sb[1], sb[2]))

\* WindowEvent::RedrawRequested => runner.update(self.events.drain(..));
\* render_ok is whether the renderer's render returns Ok (the expect
\* panics otherwise).
RedrawRequested(render_ok) ==
    /\ winit.status = "running"
    /\ Len(winit.runner.steps) < MaxSteps
    /\ LET d == drain(winit.events) IN
       winit' = [winit EXCEPT !.events = d.rest,
                              !.runner = update(@, d.yielded),
                              !.redraw_requested = FALSE,
                              !.status = IF render_ok THEN @ ELSE "panicked",
                              !.cause = IF render_ok THEN @ ELSE "RedrawRequested"]
    /\ UNCHANGED Others

\* WindowEvent::Resized(size) => runner.resize((size.width, size.height));
\* resize_ok is whether the renderer's resize returns Ok.
Resized(size, resize_ok) ==
    /\ winit.status = "running"
    /\ winit' = [winit EXCEPT !.runner = resize(@, size),
                              !.status = IF resize_ok THEN @ ELSE "panicked",
                              !.cause = IF resize_ok THEN @ ELSE "Resized"]
    /\ UNCHANGED Others

\* WindowEvent::Destroyed | WindowEvent::CloseRequested => target.exit()
CloseRequested ==
    /\ winit.status = "running"
    /\ winit' = [winit EXCEPT !.status = "exited"]
    /\ UNCHANGED Others

\* Any other event of the window, and any event of another window: _ => {}
OtherWindowEvent ==
    /\ winit.status = "running"
    /\ UNCHANGED winit
    /\ UNCHANGED Others

\* Event::DeviceEvent { .. } => todo!()
DeviceEvent ==
    /\ winit.status = "running"
    /\ winit' = [winit EXCEPT !.status = "panicked", !.cause = "DeviceEvent"]
    /\ UNCHANGED Others

\* Event::AboutToWait => self.window.request_redraw()
AboutToWait ==
    /\ winit.status = "running"
    /\ winit' = [winit EXCEPT !.redraw_requested = TRUE]
    /\ UNCHANGED Others

\* Every other event (NewEvents, Resumed, UserEvent, ..): _ => {}
OtherEvent ==
    /\ winit.status = "running"
    /\ UNCHANGED winit
    /\ UNCHANGED Others

\* The events the handler has no arm of its own for.
UnhandledEvent == OtherWindowEvent \/ DeviceEvent \/ OtherEvent

NextWinit ==
    \/ \E x \in FocusValues : Focused(x)
    \/ \E event \in KeyEvents : KeyboardInput(event)
    \/ \E position \in CursorPositions : CursorMoved(position)
    \/ \E sb \in MouseButtons : MouseInput(sb)
    \/ \E render_ok \in BOOLEAN : RedrawRequested(render_ok)
    \/ \E size \in ResizeDimensions, resize_ok \in BOOLEAN : Resized(size, resize_ok)
    \/ CloseRequested
    \/ OtherWindowEvent
    \/ DeviceEvent
    \/ AboutToWait
    \/ OtherEvent

SpecWinit == Init /\ [][NextWinit]_vars

\* The Renderer from construction on: resizes and frames on the sheet of
\* the builder, and the runner's updates.
NextSurface ==
    \/ \E window_size \in WindowSizes, game_resolution \in GameResolutions :
          NewRenderer(window_size, game_resolution)
    \/ \E size \in WindowSizes : ResizeSurface(size)
    \/ Build
    \/ \E sprites \in SceneSprites(sheet.table), acquired \in AcquireOutcomes :
          RenderFrame(sprites, acquired)
    \/ \E render_ok \in BOOLEAN : RedrawRequested(render_ok)

SpecSurface == Init /\ [][NextSurface]_vars

\* SpriteData::new on its own, over NewDims x NewDims and buffers of the
\* lengths NewLens.
NextNew ==
    \E w \in NewDims, h \in NewDims, len \in NewLens :
        New(<<w, h>>, <<0, 0>>, Bytes(len, 1))

SpecNew == Init /\ [][NextNew]_vars

\* ------------------------------------------------------------------ claims
\* Exact (unbounded) width*height of an entry or a sprite.
Area(e) == e.dimensions[1] * e.dimensions[2]

RECURSIVE AreaSum(_, _)
\* Sum of Area over the first n entries of a table.
AreaSum(t, n) == IF n = 0 THEN 0 ELSE AreaSum(t, n - 1) + Area(t[n])

Alive == phase # "panicked"

\* C1: after any sequence of add / add_animation calls the entries'
\* addresses are strictly increasing in registration order, no two pixel
\* ranges [address, address + width*height) overlap, and every entry ends
\* at or before pixel_count.
C1_AddressesDisjointAndBounded ==
    Alive =>
        /\ \A i, j \in 1..Len(table) :
              i < j => /\ table[i].address < table[j].address
                       /\ table[i].address + Area(table[i]) <= table[j].address
        /\ \A i \in 1..Len(table) :
              table[i].address + Area(table[i]) <= pixel_count

\* C2: every entry's address is the sum of width*height over the entries
\* registered before it (the dummy included) and pixel_count is the sum over
\* all entries, each registration advancing the counter by exactly
\* width*height.
C2_AddressIsPrefixSum ==
    Alive =>
        /\ \A i \in 1..Len(table) : table[i].address = AreaSum(table, i - 1)
        /\ pixel_count = AreaSum(table, Len(table))

\* C3: the table always starts with the dummy 1x1 entry at address 0 whose
\* four bytes are zero, so the table is non-empty and pixel_count >= 1 in
\* every builder state; add returns the index of the entry it appended, the
\* n-th registration getting index n.
C3_DummyFirstAndHandleIsIndex ==
    Alive =>
        /\ Len(table) >= 1
        /\ table[1] = MkSpriteEntry(0, <<1, 1>>, <<0, 0>>)
        /\ Len(data) >= 4 /\ SubSeq(data, 1, 4) = <<0, 0, 0, 0>>
        /\ pixel_count >= 1
        /\ ret.op = "add" =>
              /\ ret.handle = Len(table) - 1
              /\ ret.handle = Len(registered) - 1

\* C4: build on a builder with pixel count P >= 1 and maximum texture
\* dimension W creates a texture of width min(P, W) and height
\* 1 + floor(P / W), and width*height >= P.
C4_BuildDimensions ==
    (phase = "built" /\ pixel_count >= 1) =>
        /\ pixel_count <= max_texture_dimension_2d => sheet.width = pixel_count
        /\ pixel_count > max_texture_dimension_2d =>
              sheet.width = max_texture_dimension_2d
        /\ sheet.height = 1 + (pixel_count \div max_texture_dimension_2d)
        /\ sheet.width * sheet.height >= pixel_count

\* A sheet built from more pixels than one row holds, the last row partly
\* filled.
C4_Witness ==
    /\ phase = "built"
    /\ pixel_count > max_texture_dimension_2d
    /\ pixel_count % max_texture_dimension_2d # 0
    /\ sheet.height >= 3

\* C5: while building, the data buffer holds exactly 4*pixel_count bytes;
\* build appends exactly width*height - pixel_count zero pixels, so the
\* uploaded buffer is exactly width*height*4 bytes long.
C5_DataLengthMatchesPixelCount ==
    /\ phase = "building" => Len(data) = 4 * pixel_count
    /\ phase = "built" =>
          /\ Len(sheet.data) = sheet.width * sheet.height * 4
          /\ Len(sheet.data) =
                4 * pixel_count + 4 * (sheet.width * sheet.height - pixel_count)

\* C6: in a built sheet, for every entry and every pixel (x, y) inside its
\* dimensions, the texel at TexCoord(address + x + y*width) is pixel (x, y)
\* of the sprite data registered for the entry, and every texel at an
\* address >= pixel_count is zero.
C6_AtlasRoundTrip ==
    (phase = "built" /\ sheet.width > 0) =>
        /\ \A i \in 1..Len(sheet.table) :
              \A x \in 0..(sheet.table[i].dimensions[1] - 1),
                 y \in 0..(sheet.table[i].dimensions[2] - 1) :
                 LET a == sheet.table[i].address + x
                            + y * sheet.table[i].dimensions[1]
                     c == TexCoord(a, sheet.width)
                 IN /\ Texel(sheet, c[1], c[2]) # <<>>
                    /\ Texel(sheet, c[1], c[2]) = SpritePixel(registered[i], x, y)
        /\ \A a \in pixel_count..(sheet.width * sheet.height - 1) :
              LET c == TexCoord(a, sheet.width)
              IN Texel(sheet, c[1], c[2]) = <<0, 0, 0, 0>>

\* C7: SpriteData::new returns None whenever width is 0, height is 0 or the
\* buffer length differs from width*height*4, and Some otherwise.
C7_NewNoneIffMalformed ==
    lastNew.called =>
        LET malformed ==
                \/ lastNew.dimensions[1] = 0
                \/ lastNew.dimensions[2] = 0
                \/ lastNew.len # lastNew.dimensions[1] * lastNew.dimensions[2] * 4
        IN /\ malformed => lastNew.result.tag = "None"
           /\ ~malformed => lastNew.result.tag = "Some"

\* C8: every SpriteData that SpriteData::new returns as Some holds exactly
\* width*height*4 bytes and records exactly width*height pixels, also when
\* the products leave the u32 range.
C8_SomeIsWellFormed ==
    (lastNew.called /\ lastNew.result.tag = "Some") =>
        /\ Len(lastNew.result.value.data) = Area(lastNew.result.value) * 4
        /\ lastNew.result.value.pixels = Area(lastNew.result.value)

\* C9: add_animation rejects an empty sequence: every AnimationHandle it
\* returns has frame_count >= 1.
C9_AnimationNonEmpty ==
    /\ \A k \in 1..Len(anims) : anims[k].handle.frame_count >= 1
    /\ ret.op = "add_animation" => ret.frame_count >= 1

\* C10: the handle add_animation returns has offset = the table length at
\* the call and frame_count = the length of the sequence, and table entries
\* offset .. offset + frame_count - 1 are the sequence's sprites in order,
\* whatever was registered before or after.
C10_AnimationFramesInOrder ==
    \A k \in 1..Len(anims) :
        LET h == anims[k].handle
            frames == anims[k].frames
        IN /\ h.offset = anims[k].before
           /\ h.frame_count = Len(frames)
           /\ h.offset + h.frame_count <= Len(table)
           /\ \A i \in 1..Len(frames) :
                 \* 0-based index offset + i - 1
                 /\ table[h.offset + i].dimensions = frames[i].dimensions
                 /\ table[h.offset + i].offset = frames[i].offset
                 /\ registered[h.offset + i] = frames[i]

\* An animation registered after an add and followed by another
\* registration.
C10_Witness ==
    \E k \in 1..Len(anims) :
        /\ anims[k].handle.offset >= 2
        /\ anims[k].handle.frame_count >= 1
        /\ Len(table) > anims[k].handle.offset + anims[k].handle.frame_count

\* C11: for an AnimationHandle with frame_count > 0, get_frame(t) returns
\* the handle with index offset + (t mod frame_count) for every t, and
\* get_frame(t) = get_frame(t + frame_count).
C11_GetFrameIndexAndPeriod ==
    (frame.called /\ anims[frame.anim].handle.frame_count > 0) =>
        LET h == anims[frame.anim].handle IN
        /\ frame.result.tag = "SpriteHandle"
        /\ frame.result.index = h.offset + (frame.time % h.frame_count)
        /\ get_frame(h, frame.time + h.frame_count) = frame.result

\* get_frame was called on a handle of two or more frames with a time past
\* the last frame.
C11_Witness ==
    /\ frame.called
    /\ anims[frame.anim].handle.frame_count >= 2
    /\ frame.time > anims[frame.anim].handle.frame_count
    /\ frame.result.tag = "SpriteHandle"

\* C12: for a handle add_animation returned, get_frame(t) for t in
\* [0, frame_count) yields pairwise distinct handles in registration order,
\* the t-th handle designating the t-th sprite of the sequence, and every
\* handle get_frame returns, for any t, lies inside the table of the builder
\* and of the sheet built from it.
C12_FramesDistinctOrderedInTable ==
    /\ \A k \in 1..Len(anims) :
          LET h == anims[k].handle IN
          /\ \A t \in 0..(h.frame_count - 1) :
                /\ get_frame(h, t).tag = "SpriteHandle"
                /\ registered[get_frame(h, t).index + 1] = anims[k].frames[t + 1]
                /\ table[get_frame(h, t).index + 1].dimensions
                      = anims[k].frames[t + 1].dimensions
          /\ \A t1, t2 \in 0..(h.frame_count - 1) :
                t1 < t2 => get_frame(h, t1).index < get_frame(h, t2).index
    /\ (frame.called /\ frame.result.tag = "SpriteHandle") =>
          /\ frame.result.index < Len(table)
          /\ frame.result.index >= anims[frame.anim].handle.offset
          /\ phase = "built" => frame.result.index < Len(sheet.table)

\* A sheet was built from a builder whose animation handle answered a
\* get_frame call with a time of frame_count or more.
C12_Witness ==
    /\ phase = "built"
    /\ frame.called
    /\ frame.result.tag = "SpriteHandle"
    /\ anims[frame.anim].handle.frame_count >= 2
    /\ frame.time >= anims[frame.anim].handle.frame_count
    /\ Len(sheet.table) > frame.result.index

\* The handles of a slice all lie inside the sheet's table.
AllInRange == \A i \in 1..Len(drawn.sprites) : drawn.sprites[i].sprite < Len(sheet.table)

\* C13: render builds one instance record per Sprite Instance, in the order
\* of the slice, and draws exactly that many instances; for in-range
\* handles, record i has position = sprites[i].position + entry.offset,
\* dimensions = entry.dimensions and sheet address = entry.address, entry
\* being the entry registered under the handle (the sheet's table is the
\* builder's table).  Slices beyond the buffer's capacity are C14's.
C13_OneRecordPerInstance ==
    (drawn.called /\ AllInRange /\ Len(drawn.sprites) <= MAX_INSTANCES) =>
        /\ sheet.table = table
        /\ drawn.issued.outcome = "drawn"
        /\ Len(drawn.issued.instances) = Len(drawn.sprites)
        /\ drawn.issued.instance_count = Len(drawn.sprites)
        /\ \A i \in 1..Len(drawn.sprites) :
              LET s == drawn.sprites[i]
                  entry == table[s.sprite + 1]
                  r == drawn.issued.instances[i]
              IN /\ r.position = <<s.position[1] + entry.offset[1],
                                    s.position[2] + entry.offset[2]>>
                 /\ r.dimensions = entry.dimensions
                 /\ r.sheet_position = entry.address
                 /\ entry.dimensions = registered[s.sprite + 1].dimensions
                 /\ entry.offset = registered[s.sprite + 1].offset

C15_ForeignHandleNotTolerated ==
    drawn.called =>
        /\ ~AllInRange =>
              /\ drawn.issued.outcome \in {"index_panic", "overflow_panic"}
              /\ drawn.issued.written = 0
              /\ drawn.issued.instance_count = 0
        /\ drawn.issued.outcome = "drawn" =>
              \A i \in 1..Len(drawn.sprites) : ~drawn.sprites[i].foreign

\* The last calculate_active_quad call returned a quad; its scale, its
\* vertices and the pixel coordinates of its edges.
QuadReturned == quad.called /\ quad.result.tag = "Quad"
QuadScale == int_scale(quad.surface, quad.canvas)
V(i) == quad.result.vertices[i]
NearX == PixelOf(V(1).x)
FarX == PixelOf(V(2).x)
FarY == PixelOf(V(1).y)
NearY == PixelOf(V(3).y)

\* C16: for canvas width and height > 0 the scale
\* min(surface.width div canvas.width, surface.height div canvas.height)
\* is floor(min(surface.width/canvas.width, surface.height/canvas.height))
\* over the real ratios, an integer >= 0, and the largest integer s with
\* canvas.width*s <= surface.width and canvas.height*s <= surface.height;
\* the returned quad is canvas*scale pixels wide and high.
C16_ScaleIsLargestFit ==
    quad.called =>
        LET s == QuadScale
            sw == quad.surface.width
            sh == quad.surface.height
            cw == quad.canvas.width
            ch == quad.canvas.height
        IN /\ s \in Nat
           \* s <= min(sw/cw, sh/ch) < s + 1
           /\ s * cw <= sw /\ s * ch <= sh
           /\ (s + 1) * cw > sw \/ (s + 1) * ch > sh
           \* no larger integer fits
           /\ \A k \in 0..SizeModulus :
                 (k * cw <= sw /\ k * ch <= sh) => k <= s
           /\ quad.result.tag = "Quad"
           /\ FarX - NearX = cw * s
           /\ FarY - NearY = ch * s

\* A quad for a surface whose two ratios differ, at a scale of 2 or more
\* with pixels left over.
C16_Witness ==
    /\ QuadReturned
    /\ QuadScale >= 2
    /\ quad.surface.width \div quad.canvas.width
          # quad.surface.height \div quad.canvas.height
    /\ quad.surface.width % quad.canvas.width # 0

\* C17: on each axis the near edge of the quad is at pixel
\* (surface - canvas*scale) div 2 and the far edge at that offset +
\* canvas*scale, each converted to NDC as p/surface*2 - 1; canvas 240x240
\* on surface 500x500 gives scale 2 and edges at pixels 10 and 490 on both
\* axes, the left edge at NDC 10/500*2 - 1.
C17_CenteredEdges ==
    quad.called =>
        LET s == QuadScale
            xo == (quad.surface.width - quad.canvas.width * s) \div 2
            yo == (quad.surface.height - quad.canvas.height * s) \div 2
        IN /\ quad.result.tag = "Quad"
           /\ V(1).x = Ndc(xo, quad.surface.width)
           /\ V(2).x = Ndc(xo + quad.canvas.width * s, quad.surface.width)
           /\ V(3).y = Ndc(yo, quad.surface.height)
           /\ V(1).y = Ndc(yo + quad.canvas.height * s, quad.surface.height)
           /\ NearX = xo /\ FarX = xo + quad.canvas.width * s
           /\ NearY = yo /\ FarY = yo + quad.canvas.height * s
           /\ (quad.surface = MkSize(500, 500) /\ quad.canvas = MkSize(240, 240)) =>
                 /\ s = 2
                 /\ FarX - NearX = 480 /\ FarY - NearY = 480
                 /\ NearX = 10 /\ FarX = 490 /\ NearY = 10 /\ FarY = 490
                 /\ V(1).x = [num |-> 2 * 10 - 500, den |-> 500]

\* The quad of the 240x240 canvas on the 500x500 surface.
C17_Witness ==
    /\ QuadReturned
    /\ quad.surface = MkSize(500, 500)
    /\ quad.canvas = MkSize(240, 240)

\* C18: when the surface is smaller than the canvas on at least one axis
\* the scale is 0 and the quad has zero area: near and far edge coincide on
\* both axes and the four vertices are one point.
C18_ZeroScaleCollapses ==
    (quad.called /\ (\/ quad.surface.width < quad.canvas.width
                     \/ quad.surface.height < quad.canvas.height)) =>
        /\ QuadScale = 0
        /\ quad.result.tag = "Quad"
        /\ NearX = FarX /\ NearY = FarY
        /\ V(1) = V(2) /\ V(2) = V(3) /\ V(3) = V(4)

\* The quad of the 240x240 canvas on the 100x300 surface.
C18_Witness ==
    /\ QuadReturned
    /\ quad.surface = MkSize(100, 300)
    /\ quad.canvas = MkSize(240, 240)

\* The margins of the quad inside NDC [-1, 1] x [-1, 1], each as the
\* numerator over the surface's width or height.
LeftMargin == V(1).x.num + V(1).x.den
RightMargin == V(2).x.den - V(2).x.num
TopMargin == V(1).y.den - V(1).y.num
BottomMargin == V(3).y.num + V(3).y.den
OddX == (quad.surface.width - quad.canvas.width * QuadScale) % 2 = 1
OddY == (quad.surface.height - quad.canvas.height * QuadScale) % 2 = 1

\* C19 as stated: when surface - upscaled is odd on an axis, the left
\* margin is the smaller horizontal margin and the top margin (at NDC
\* y = +1) is the smaller vertical margin.
C19_BiasTopLeft ==
    QuadReturned =>
        /\ OddX => LeftMargin < RightMargin
        /\ OddY => TopMargin < BottomMargin

\* C19 amended: when surface - upscaled is odd on an axis, the left margin
\* is the smaller horizontal margin and the bottom margin (at NDC y = -1)
\* is the smaller vertical margin, each by one pixel.
C19_BiasBottomLeft ==
    QuadReturned =>
        /\ OddX => /\ LeftMargin < RightMargin
                   /\ RightMargin - LeftMargin = 2
        /\ OddY => /\ BottomMargin < TopMargin
                   /\ TopMargin - BottomMargin = 2

\* A quad with an odd number of pixels left over on both axes.
C19_Witness == QuadReturned /\ OddX /\ OddY /\ QuadScale >= 1

\* C20: the vertices are, in order, (near-x, far-y), (far-x, far-y),
\* (near-x, near-y), (far-x, near-y) with near = offset and far = offset +
\* upscaled; paired with the texture coordinates QUAD_VERTICES, texture x
\* grows with surface x and texture y grows against surface NDC y.
C20_VerticalFlip ==
    QuadReturned =>
        LET up == upscaled_size(quad.canvas, QuadScale)
            nx == x_offset(quad.surface, up)
            ny == y_offset(quad.surface, up)
            fx == nx + up.width
            fy == ny + up.height
        IN /\ V(1) = MkVertex(Ndc(nx, quad.surface.width), Ndc(fy, quad.surface.height))
           /\ V(2) = MkVertex(Ndc(fx, quad.surface.width), Ndc(fy, quad.surface.height))
           /\ V(3) = MkVertex(Ndc(nx, quad.surface.width), Ndc(ny, quad.surface.height))
           /\ V(4) = MkVertex(Ndc(fx, quad.surface.width), Ndc(ny, quad.surface.height))
           /\ \A i, j \in 1..4 :
                 /\ QUAD_VERTICES[i].x < QUAD_VERTICES[j].x =>
                       /\ V(i).x.num <= V(j).x.num
                       /\ QuadScale >= 1 => V(i).x.num < V(j).x.num
                 /\ QUAD_VERTICES[i].y < QUAD_VERTICES[j].y =>
                       /\ V(i).y.num >= V(j).y.num
                       /\ QuadScale >= 1 => V(i).y.num > V(j).y.num

\* A quad of non-zero area that is not the whole surface.
C20_Witness ==
    /\ QuadReturned
    /\ QuadScale >= 1
    /\ NearX > 0 /\ NearY > 0
    /\ FarY > NearY /\ FarX > NearX

\* ------------------------------------------------ build: rows and limits
\* ceil(a / b)
CeilDiv(a, b) == (a + b - 1) \div b

\* The least number of rows of the built width that hold pixel_count
\* pixels, and the rows the texture has beyond them.
MinRows == CeilDiv(pixel_count, sheet.width)
ExtraRows == sheet.height - MinRows

BuiltNonEmpty == phase = "built" /\ pixel_count >= 1 /\ sheet.width > 0

\* C24 (as the specification states it): for every pixel count P >= 1 the
\* height 1 + floor(P / W) is at least one full row more than the least
\* number of rows that hold P pixels at the built width.
C24_AlwaysExtraRow == BuiltNonEmpty => ExtraRows >= 1

\* C24 (amended): for every pixel count P >= 1 the height 1 + floor(P / W)
\* is exactly the least number of rows that hold P pixels at the built
\* width, except when W divides P, where it is one row more.
C24_ExtraRowOnlyWhenDivisible ==
    BuiltNonEmpty =>
        ExtraRows = IF pixel_count % max_texture_dimension_2d = 0 THEN 1 ELSE 0

\* A sheet of more than one row whose last row is partly filled, with no
\* row to spare.
C24_Witness ==
    /\ BuiltNonEmpty
    /\ pixel_count > max_texture_dimension_2d
    /\ pixel_count % max_texture_dimension_2d # 0
    /\ ExtraRows = 0

\* C27: for every pixel count a builder can accumulate, the texture of
\* build is within the device limit on both axes: width and height are at
\* most max_texture_dimension_2d.
C27_TextureWithinLimit ==
    phase = "built" =>
        /\ sheet.width <= max_texture_dimension_2d
        /\ sheet.height <= max_texture_dimension_2d

\* ------------------------------------------- calculate_active_quad: u32
\* The surface sizes with a zero dimension, which reach the integer part of
\* calculate_active_quad only (the scale is 0 there).
ZeroSurfaces ==
    { MkSize(w, h) : w \in SurfaceDims \cup {0}, h \in {0} } \cup
    { MkSize(w, h) : w \in {0}, h \in SurfaceDims }

\* C26: for every surface size and every canvas size with non-zero width
\* and height no u32 operation of calculate_active_quad leaves the u32
\* range: canvas*scale <= surface on both axes, surface - upscaled >= 0
\* and offset + upscaled <= surface.
C26_NoOverflow ==
    quad.called =>
        LET sw == quad.surface.width
            sh == quad.surface.height
            cw == quad.canvas.width
            ch == quad.canvas.height
            k == IF sw \div cw <= sh \div ch THEN sw \div cw ELSE sh \div ch
        IN /\ quad.result.tag = "Quad"
           /\ ~quad_overflows(quad.surface, quad.canvas)
           /\ upscaled_size(quad.canvas, QuadScale) = MkSize(cw * k, ch * k)
           /\ cw * k <= sw
           /\ ch * k <= sh
           /\ x_padding(upscaled_size(quad.canvas, QuadScale),
                        x_offset(quad.surface, upscaled_size(quad.canvas, QuadScale)))
                 = cw * k + ((sw - cw * k) \div 2)
           /\ cw * k + ((sw - cw * k) \div 2) <= sw
           /\ ch * k + ((sh - ch * k) \div 2) <= sh
           /\ \A z \in ZeroSurfaces : ~quad_overflows(z, quad.canvas)

\* A surface at the top of the range with a canvas that fits several
\* times on one axis and once on the other, in the panicking profile.
C26_Witness ==
    /\ QuadReturned
    /\ overflow_checks
    /\ quad.surface.width = SizeModulus - 1
    /\ quad.surface.width \div quad.canvas.width
          > quad.surface.height \div quad.canvas.height
    /\ QuadScale >= 1

\* ------------------------------------------------- the Renderer's frames
LastFrame == renderer.last
Count(log, x) == Cardinality({ i \in 1..Len(log) : log[i] = x })
Pos(log, x) == CHOOSE i \in 1..Len(log) : log[i] = x
Attempts == Count(LastFrame.log, "get_current_texture")
Reconfigurations == Count(LastFrame.log, "configure")
Returned == LastFrame.called /\ LastFrame.result # "Panic"

\* C21: resize_surface changes only the surface configuration's width and
\* height, which become the new size, and the active-quad buffer; the
\* canvas (size and texture), the pipelines and the sprite sheet stay as
\* they are, so the canvas size is always the game_resolution of
\* construction.
C21_ResizeKeepsCanvas ==
    /\ [](renderer.constructed => renderer.canvas.size = renderer.game_resolution)
    /\ [][\A size \in WindowSizes :
            ResizeSurface(size) =>
                /\ renderer'.surface_config = size
                /\ renderer' = [renderer EXCEPT
                                   !.op = renderer'.op,
                                   !.surface_config = renderer'.surface_config,
                                   !.active_quad_buffer = renderer'.active_quad_buffer]
                /\ renderer'.canvas = renderer.canvas
                /\ renderer'.pipelines = renderer.pipelines
                /\ sheet' = sheet]_vars

\* A resize, after a frame was rendered, to a size that is not the game
\* resolution.
C21_Witness ==
    /\ renderer.op = "resize_surface"
    /\ renderer.last.called
    /\ phase = "built"
    /\ renderer.surface_config # renderer.game_resolution
    /\ renderer.surface_config.width > renderer.game_resolution.width

\* C22: in one render call a failed first acquisition is followed by
\* exactly one reconfiguration and exactly one retry; the frame proceeds to
\* submit and present when the retry succeeds, and render returns
\* Err(SurfaceTexture), without a panic and without a third attempt, when
\* it fails: at most two attempts and one reconfiguration per frame.
C22_OneRetry ==
    Returned =>
        /\ Attempts \in {1, 2}
        /\ Reconfigurations = Attempts - 1
        /\ LastFrame.acquired[1] =>
              /\ Attempts = 1
              /\ LastFrame.result = "Ok"
        /\ ~LastFrame.acquired[1] =>
              /\ Attempts = 2
              /\ \E i \in 1..(Len(LastFrame.log) - 2) :
                    /\ LastFrame.log[i] = "get_current_texture"
                    /\ LastFrame.log[i + 1] = "configure"
                    /\ LastFrame.log[i + 2] = "get_current_texture"
              /\ LastFrame.acquired[2] =>
                    /\ LastFrame.result = "Ok"
                    /\ Count(LastFrame.log, "present") = 1
              /\ ~LastFrame.acquired[2] => LastFrame.result = "Err(SurfaceTexture)"

\* A frame presented after its first acquisition failed.
C22_Witness ==
    /\ Returned
    /\ ~LastFrame.acquired[1]
    /\ LastFrame.result = "Ok"
    /\ Reconfigurations = 1

\* The entries of a successful frame the order is stated about.
FrameSteps ==
    << "begin_render_pass(canvas, Clear)", "set_bind_group(0, dimensions)",
       "sprite_renderer.render", "rect_renderer.render",
       "primitives_renderer.render(pixels)",
       "primitives_renderer.render(linestrips)", "circle_renderer.render",
       "drop(render_pass)", "begin_render_pass(surface, Clear)",
       "draw(active_quad)", "queue.submit", "present" >>

\* The four draws of the canvas pass may come in any order between the
\* binding and the end of the pass; the other entries come in this order.
DrawSteps == 3..7

\* C23: in every successful frame the canvas pass begins with a clear, the
\* canvas dimension binding is set, the draws of sprites, rectangles,
\* pixels and line strips, and circles are recorded into that pass, and the
\* pass ends; only then is the composite pass onto the surface recorded,
\* then the commands are submitted, then the surface is presented.  The
\* runner calls step before draw before render.
C23_FrameOrder ==
    /\ (LastFrame.called /\ LastFrame.result = "Ok") =>
          /\ \A k \in 1..Len(FrameSteps) : Count(LastFrame.log, FrameSteps[k]) = 1
          /\ \A j, k \in 1..Len(FrameSteps) :
                (j < k /\ ~(j \in DrawSteps /\ k \in DrawSteps)) =>
                    Pos(LastFrame.log, FrameSteps[j]) < Pos(LastFrame.log, FrameSteps[k])
    /\ winit.runner.calls # <<>> =>
          /\ Count(winit.runner.calls, "step") = 1
          /\ Count(winit.runner.calls, "draw") = 1
          /\ Count(winit.runner.calls, "render") = 1
          /\ Pos(winit.runner.calls, "step") < Pos(winit.runner.calls, "draw")
          /\ Pos(winit.runner.calls, "draw") < Pos(winit.runner.calls, "render")

\* A successful frame of the Renderer and an update of the runner.
C23_Witness ==
    /\ LastFrame.called
    /\ LastFrame.result = "Ok"
    /\ renderer.op = "render"
    /\ winit.runner.calls # <<>>

\* Whether two vertex arrays hold the same coordinates (the fractions are
\* compared by value).
SameCoord(a, b) == a.num * b.den = b.num * a.den
SameQuad(u, v) ==
    /\ Len(u) = Len(v)
    /\ \A i \in 1..Len(u) : SameCoord(u[i].x, v[i].x) /\ SameCoord(u[i].y, v[i].y)

\* C25: at every composited frame, from construction on and after any
\* resizes, the active-quad buffer holds
\* calculate_active_quad(current surface size, canvas size), also before
\* the first resize when the window size differs from the canvas size.
C25_QuadMatchesSurface ==
    (renderer.op = "render" /\ LastFrame.result = "Ok") =>
        SameQuad(renderer.active_quad_buffer,
                 calculate_active_quad(renderer.surface_config,
                                       renderer.canvas.size,
                                       overflow_checks).vertices)

\* C28: a render call submits at most once and presents at most once, and
\* presents only after submitting; a call that returns Err has submitted
\* nothing and presented nothing.
C28_SubmitThenPresent ==
    LastFrame.called =>
        /\ Count(LastFrame.log, "queue.submit") <= 1
        /\ Count(LastFrame.log, "present") <= 1
        /\ Count(LastFrame.log, "present") = 1 =>
              /\ Count(LastFrame.log, "queue.submit") = 1
              /\ Pos(LastFrame.log, "queue.submit") < Pos(LastFrame.log, "present")
        /\ LastFrame.result = "Ok" => Count(LastFrame.log, "present") = 1
        /\ LastFrame.result # "Ok" =>
              /\ Count(LastFrame.log, "queue.submit") = 0
              /\ Count(LastFrame.log, "present") = 0

\* A render call that returned Err after its canvas pass, both acquisitions
\* having failed.
C28_Witness ==
    /\ LastFrame.called
    /\ LastFrame.result = "Err(SurfaceTexture)"
    /\ Attempts = 2
    /\ Count(LastFrame.log, "drop(render_pass)") = 1

\* ------------------------------------------------------- the event loop
\* The events of the batches handed to step, one batch after the other.
RECURSIVE Flatten(_)
Flatten(batches) ==
    IF batches = <<>> THEN <<>>
    ELSE Head(batches) \o Flatten(Tail(batches))

\* C29: every focus, keyboard, cursor-moved and mouse-button event of the
\* window is handed to the game's step exactly once, in arrival order, at
\* the next RedrawRequested, and the pending queue is empty after each
\* update: the events stepped so far followed by the pending ones are the
\* events that arrived, for any interleaving of input, resize and redraw
\* events.
C29_EventsDeliveredOnceInOrder ==
    /\ [](Flatten(winit.runner.steps) \o winit.events = winit.arrived)
    /\ [][(\E render_ok \in BOOLEAN : RedrawRequested(render_ok)) =>
              /\ winit'.events = <<>>
              /\ winit'.runner.steps = Append(winit.runner.steps, winit.events)]_vars

\* Two events of different kinds stepped in one batch, none pending, after
\* a resize.
C29_Witness ==
    /\ Len(winit.runner.steps) >= 1
    /\ Len(winit.runner.steps[Len(winit.runner.steps)]) = 2
    /\ winit.runner.steps[Len(winit.runner.steps)][1].kind
          # winit.runner.steps[Len(winit.runner.steps)][2].kind
    /\ winit.events = <<>>
    /\ winit.runner.size # NoRunner.size

\* C30: the event loop never aborts on an event it does not handle: every
\* event other than the window events matched explicitly, device events
\* included, leaves the runner and the pending queue as they are, and the
\* loop keeps running.
C30_UnhandledEventsIgnored ==
    [][UnhandledEvent =>
          /\ winit'.runner = winit.runner
          /\ winit'.events = winit.events
          /\ winit'.status = "running"]_vars

====
